---- MODULE Spec2Model ----
(***************************************************************************)
(* A model of the a^n b^n c^n language notebooks (src/afl3/tove1.ipynb):   *)
(* the validity predicates (follows_pattern and the two is_language        *)
(* methods) and the three LanguageDataset generators; of the training and  *)
(* evaluation loops of tove1.ipynb, feedforwardAssignment_ORIGINAL.ipynb   *)
(* and feedForwardMNIST.ipynb; of the hyper-parameter search and the RNN   *)
(* of tove1.ipynb; and of training_loop, save_model and                    *)
(* merge_list_of_dicts of x_ray_segmentation_ERDA.ipynb.                   *)
(*                                                                         *)
(* A Python string is a sequence of one-character strings, so that         *)
(* "abc" is <<"a", "b", "c">>, len is Len and s[i:j] is SubSeq.            *)
(***************************************************************************)
EXTENDS Integers, Sequences, FiniteSets, Bags, TLC

VARIABLES
    \* ---- one call of a validity predicate
    sequence,       \* the argument string
    called,         \* which predicate has been called on it, or "none"
    result,         \* what the call returned, or "none"
    \* ---- one construction of a LanguageDataset
    variant,        \* which of the three class definitions is constructed
    min_length,     \* self.min_length
    max_length,     \* self.max_length
    p,              \* self.p, in tenths
    num_samples,    \* self.num_samples
    loader_type,    \* self.loader_type (split variant)
    pc,             \* position of the constructor
    i,              \* iterations of the current for loop that have completed
    length,         \* the local `length` of the loop body
    candidate,      \* the local `sequence` of generate_invalid_sequence
    gen_sequence,   \* the local `sequence` of the loop body
    branch,         \* which branch assigned gen_sequence: "valid" or "invalid"
    valid_samples,  \* the local valid_samples_train / _valid / _test
    invalid_samples,\* the local invalid_samples
    split,          \* the local `split` of generate_test_samples, numerator
    train_set,      \* self.train_set
    valid_set,      \* self.valid_set
    test_set,       \* self.test_set
    samples,        \* the local `samples` of generate_samples, then self.samples
    \* ---- one run of a training loop followed by an evaluation loop
    notebook,       \* whose loops run: "tove1", "feedforward" or "mnist"
    lpc,            \* position of the run
    num_epochs,     \* the argument num_epochs / epochs
    n_batches,      \* len(train_loader): the mini-batches of one epoch
    epoch,          \* the loop variable `epoch`: epochs that have completed
    times,          \* mini-batches of the current epoch that have completed
    batch_ops,      \* the optimizer and autograd calls of the current iteration
    grad,           \* the mini-batches whose gradients the .grad fields hold
    n_steps,        \* calls of optimizer.step so far
    step_grad,      \* the value of grad that the latest optimizer.step applied
    labels,         \* the true labels of the evaluation set, in loader order
    batch_size,     \* batch_size of the evaluation loader
    predicted,      \* the model's prediction for every example, in this pass
    eval_idx,       \* batches of the current evaluation loop that have completed
    correct,        \* the local `correct` / `true_preds`
    total,          \* the local `total` / `num_preds`
    val_acc,        \* the local `val_acc` / `acc`, as <<numerator, denominator>>
    best_val_acc,   \* the local `best_val_acc`, as <<numerator, denominator>>
    best_epoch,     \* the epoch, counted from 1, whose validation set best_val_acc (0: none)
    best_model,     \* the local `best_model`: "None" or a reference to "model"
    class_correct,  \* the local class_correct of evaluate_model
    class_total,    \* the local class_total of evaluate_model
    \* ---- one run of the hyper-parameter search cell
    gpc,            \* position of the cell
    grid_k,         \* combinations of the nested loops that have completed
    hidden_size,    \* the loop variable hidden_size
    lr,             \* the loop variable lr, in thousandths
    grid_model,     \* the global `model`: what train_model returned last
    grid_val_acc,   \* the global `val_acc`, as <<numerator, denominator>>
    grid_best_val_acc, \* the global `best_val_acc`
    grid_best_model,   \* the global `best_model`
    grid_returned,  \* every <<model, val_acc>> that train_model has returned
    \* ---- one call of merge_list_of_dicts
    list_of_dicts,  \* the argument
    merged,         \* the local `merged`, then the returned dictionary
    mpc,            \* position of the call
    \* ---- one call of training_loop of the segmentation notebook
    cpc,            \* position of the call
    n_epochs,       \* the argument n_epochs
    init_epoch,     \* the argument init_epoch, <<"None", 0>> or <<"int", k>>
    save_path,      \* the argument save_path, <<"None">> or <<name>>
    has_f1,         \* whether metrics_dict has an entry "f1"
    epoch_i,        \* the loop variable i
    model_state,    \* model.state_dict(): the run and the epochs trained
    optimizer_state,\* optimizer.state_dict()
    files,          \* the checkpoint files: <<k, content>> is epoch_k_<save_path>
    train_metrics,  \* the local train_metrics
    val_metrics,    \* the local val_metrics
    train_history,  \* the local train_history
    val_history,    \* the local val_history
    loop_returned,  \* what training_loop returned
    \* ---- the forward passes of one RNN
    rpc,            \* position: in the caller or inside RNN.forward
    n_layers,       \* self.n_layers
    rnn_hidden_size,\* self.hidden_size
    seq_len,        \* input.size(1), the time steps of every batch
    call_no,        \* calls of RNN.forward so far: the current batch
    hidden_arg,     \* the argument hidden of the call: "None" or "init_hidden"
    hidden,         \* the list `hidden`: per layer <<width, batches it depends on>>
    input,          \* the local `input`: the time steps the current layer reads
    input_width,    \* input.size(2)
    layer_idx,      \* the loop variable layer_idx
    input_idx,      \* the loop variable input_idx
    layer_outputs,  \* the local layer_outputs
    consumed,       \* every <<layer, x>> passed to a cell in this call, in order
    logits          \* the value the latest call returned: <<source, width>>

predVars == <<sequence, called, result>>
dataVars == <<variant, min_length, max_length, p, num_samples, loader_type, pc, i,
              length, candidate, gen_sequence, branch, valid_samples, invalid_samples, split,
              train_set, valid_set, test_set, samples>>
learnVars == <<notebook, lpc, num_epochs, n_batches, epoch, times, batch_ops, grad,
               n_steps, step_grad, labels, batch_size, predicted, eval_idx, correct,
               total, val_acc, best_val_acc, best_model, best_epoch, class_correct, class_total>>
\* the variables of the training, evaluation and model-handling code
gridVars == <<gpc, grid_k, hidden_size, lr, grid_model, grid_val_acc, grid_best_val_acc,
              grid_best_model, grid_returned>>
mergeVars == <<list_of_dicts, merged, mpc>>
ckptVars == <<cpc, n_epochs, init_epoch, save_path, has_f1, epoch_i, model_state,
              optimizer_state, files, train_metrics, val_metrics, train_history,
              val_history, loop_returned>>
rnnVars == <<rpc, n_layers, rnn_hidden_size, seq_len, call_no, hidden_arg, hidden, input,
             input_width, layer_idx, input_idx, layer_outputs, consumed, logits>>
mlVars == <<learnVars, gridVars, mergeVars, ckptVars, rnnVars>>
vars == <<predVars, dataVars, mlVars>>

\* no training or evaluation run in progress
LearnIdle ==
    /\ notebook = "none" /\ lpc = "idle" /\ num_epochs = 0 /\ n_batches = 0
    /\ epoch = 0 /\ times = 0 /\ batch_ops = <<>> /\ grad = {} /\ n_steps = 0
    /\ step_grad = {} /\ labels = <<>> /\ batch_size = 1 /\ predicted = <<>>
    /\ eval_idx = 0 /\ correct = 0 /\ total = 0 /\ val_acc = <<0, 1>>
    /\ best_val_acc = <<0, 1>> /\ best_model = "None" /\ best_epoch = 0
    /\ class_correct = <<>> /\ class_total = <<>>

\* no hyper-parameter search in progress
GridIdle ==
    /\ gpc = "idle" /\ grid_k = 0 /\ hidden_size = 0 /\ lr = 0
    /\ grid_model = <<"None">> /\ grid_val_acc = <<0, 1>> /\ grid_best_val_acc = <<0, 1>>
    /\ grid_best_model = <<"None">> /\ grid_returned = <<>>

\* no call of merge_list_of_dicts in progress
MergeIdle == list_of_dicts = <<>> /\ merged = <<>> /\ mpc = "idle"

\* no call of training_loop in progress
CkptIdle ==
    /\ cpc = "idle" /\ n_epochs = 0 /\ init_epoch = <<"None", 0>> /\ save_path = <<"None">>
    /\ has_f1 = FALSE /\ epoch_i = 0 /\ model_state = <<"new", 0>>
    /\ optimizer_state = <<"new", 0>> /\ files = {} /\ train_metrics = <<>>
    /\ val_metrics = <<>> /\ train_history = <<>> /\ val_history = <<>>
    /\ loop_returned = <<>>

\* no RNN constructed
RnnIdle ==
    /\ rpc = "idle" /\ n_layers = 0 /\ rnn_hidden_size = 0 /\ seq_len = 0 /\ call_no = 0
    /\ hidden_arg = "None" /\ hidden = <<>> /\ input = <<>> /\ input_width = 0
    /\ layer_idx = 0 /\ input_idx = 0 /\ layer_outputs = <<>> /\ consumed = <<>>
    /\ logits = <<>>

MlIdle == LearnIdle /\ GridIdle /\ MergeIdle /\ CkptIdle /\ RnnIdle

----------------------------------------------------------------------------
(* Bounds of the model *)

\* the predicates are called on every string of at most MaxLen characters
MaxLen == 6
\* LanguageDataset(min_length, max_length, p, num_samples): lengths up to MaxGenLen
MaxGenLen == 3
\* ... and num_samples up to MaxNumSamples
MaxNumSamples == 1
\* LanguageDataset(num_samples, loader_type): num_samples up to MaxSplitSamples
MaxSplitSamples == 8
\* np.random.rand() of generate_test_samples is a multiple of 1/SplitDenom
SplitDenom == 3

----------------------------------------------------------------------------
(* Strings *)

Alphabet == {"a", "b", "c"}

\* 'x' * n
Rep(x, n) == [k \in 1..n |-> x]

\* every string over the alphabet of exactly n characters
StringsOfLen(n) == [1..n -> Alphabet]

\* every string over the alphabet of at most n characters
StringsUpTo(n) == UNION {StringsOfLen(k) : k \in 0..n}

\* sequence.count(x), as the counting loop of the count-based is_language does it
Count(s, x) == Cardinality({k \in 1..Len(s) : s[k] = x})

\* s[lo:hi] of Python for 0 <= lo <= hi <= len(s)
Slice(s, lo, hi) == SubSeq(s, lo + 1, hi)

----------------------------------------------------------------------------
(* The validity predicates *)

follows_pattern_FirstThirdOnly(s) ==
    IF Len(s) % 3 # 0 THEN 0
    ELSE LET n == Len(s) \div 3
         IN  IF Slice(s, 0, n) = Rep("a", n) THEN 1 ELSE 0

follows_pattern_MiddleSliceShort(s) ==
    IF Len(s) % 3 # 0 THEN 0
    ELSE LET n == Len(s) \div 3
         IN  IF Slice(s, 0, n) = Rep("a", n)
                /\ Slice(s, n, IF n = 0 THEN 0 ELSE 2 * n - 1) = Rep("b", n)
                /\ Slice(s, 2 * n, Len(s)) = Rep("c", n)
             THEN 1 ELSE 0

\* def follows_pattern(s): 1 or 0
follows_pattern(s) ==
    IF Len(s) % 3 # 0 THEN 0
    ELSE LET n == Len(s) \div 3
         IN  IF Slice(s, 0, n) = Rep("a", n) /\ Slice(s, n, 2 * n) = Rep("b", n)
                /\ Slice(s, 2 * n, Len(s)) = Rep("c", n)
             THEN 1 ELSE 0

is_language_count_AandBOnly(s) == Count(s, "a") = Count(s, "b")

\* LanguageDataset.is_language of the first class definition: equal counts
is_language_count(s) ==
    Count(s, "a") = Count(s, "b") /\ Count(s, "b") = Count(s, "c")

is_language_pattern_LastSliceFromN(s) ==
    IF Len(s) % 3 # 0 THEN FALSE
    ELSE LET n == Len(s) \div 3
         IN  /\ Slice(s, 0, n) = Rep("a", n)
             /\ Slice(s, n, 2 * n) = Rep("b", n)
             /\ Slice(s, n, Len(s)) = Rep("c", n)

\* LanguageDataset.is_language of the later class definitions: True or False
is_language_pattern(s) ==
    IF Len(s) % 3 # 0 THEN FALSE
    ELSE LET n == Len(s) \div 3
         IN  /\ Slice(s, 0, n) = Rep("a", n)
             /\ Slice(s, n, 2 * n) = Rep("b", n)
             /\ Slice(s, 2 * n, Len(s)) = Rep("c", n)

\* the strings the example-usage cell passes to follows_pattern
ExampleUsage ==
    { Rep("a", 3) \o Rep("b", 3) \o Rep("c", 3),
      Rep("a", 4) \o Rep("b", 4) \o Rep("c", 4),
      <<"a", "b", "c", "c", "b", "a">>,
      <<"a", "b", "c">> }

PredIdle == sequence = <<>> /\ called = "idle" /\ result = "none"

PredInit ==
    /\ sequence \in StringsUpTo(MaxLen) \cup ExampleUsage
    /\ called = "none"
    /\ result = "none"

CallFollowsPattern ==
    /\ called = "none"
    /\ called' = "follows_pattern"
    /\ result' = follows_pattern(sequence)
    /\ UNCHANGED <<sequence, dataVars, mlVars>>

CallIsLanguageCount ==
    /\ called = "none"
    /\ called' = "is_language_count"
    /\ result' = is_language_count(sequence)
    /\ UNCHANGED <<sequence, dataVars, mlVars>>

CallIsLanguagePattern ==
    /\ called = "none"
    /\ called' = "is_language_pattern"
    /\ result' = is_language_pattern(sequence)
    /\ UNCHANGED <<sequence, dataVars, mlVars>>

----------------------------------------------------------------------------
(* The datasets: no construction in progress *)

DataIdle ==
    /\ variant = "none" /\ min_length = 0 /\ max_length = 0 /\ p = 0
    /\ num_samples = 0 /\ loader_type = "none" /\ pc = "idle" /\ i = 0
    /\ length = 0 /\ candidate = <<>> /\ gen_sequence = <<>> /\ branch = "none"
    /\ valid_samples = EmptyBag /\ invalid_samples = EmptyBag /\ split = 0
    /\ train_set = EmptyBag /\ valid_set = EmptyBag /\ test_set = EmptyBag
    /\ samples = <<>>

----------------------------------------------------------------------------
(* LanguageDataset(min_length, max_length, p, num_samples): the first class     *)
(* definition ("count": is_language compares the counts, the valid branch has   *)
(* no length guard) and the second ("pattern": is_language compares the thirds, *)
(* the valid branch requires length % 3 == 0).                                  *)

\* the values of p, in tenths: every call of the notebook passes 0.5
PValues == {5}

\* the values np.random.rand() returns, in tenths: it never returns 1.0
RandValues == {0, 5}

\* int(b) of a bool
ToInt(b) == IF b THEN 1 ELSE 0

\* 'a' * n + 'b' * n + 'c' * n
generate_valid_sequence(n) == Rep("a", n) \o Rep("b", n) \o Rep("c", n)

\* self.is_language of the class definition v
is_language(v, s) ==
    IF v = "count" THEN is_language_count(s) ELSE is_language_pattern(s)

\* the condition of the valid branch of generate_samples
TakesValidBranch(v, rand, prob, len) ==
    IF v = "count" THEN rand < prob ELSE rand < prob /\ len % 3 = 0

\* ''.join(np.random.choice(['a', 'b', 'c'], size=length))
RandomString(len) == StringsOfLen(len)

RangeInit ==
    /\ variant \in {"count", "pattern"}
    /\ min_length \in 0..MaxGenLen
    /\ max_length \in min_length..MaxGenLen
    /\ p \in PValues
    /\ num_samples \in 0..MaxNumSamples
    /\ loader_type = "none"
    /\ pc = "generate_samples"
    /\ i = 0 /\ length = 0 /\ candidate = <<>> /\ gen_sequence = <<>>
    /\ branch = "none"
    /\ valid_samples = EmptyBag /\ invalid_samples = EmptyBag /\ split = 0
    /\ train_set = EmptyBag /\ valid_set = EmptyBag /\ test_set = EmptyBag
    /\ samples = <<>>

\* one iteration of the for loop of generate_samples, up to the call of
\* generate_invalid_sequence when the invalid branch is taken
GenerateSamplesIteration ==
    /\ pc = "generate_samples"
    /\ variant \in {"count", "pattern"}
    /\ i < num_samples
    /\ \E len \in min_length..max_length, rand \in RandValues :
          /\ length' = len
          /\ IF TakesValidBranch(variant, rand, p, len)
             THEN LET s == generate_valid_sequence(len \div 3)
                  IN  /\ gen_sequence' = s
                      /\ branch' = "valid"
                      /\ samples' = Append(samples, <<s, ToInt(is_language(variant, s))>>)
                      /\ i' = i + 1
                      /\ UNCHANGED <<pc, candidate>>
             ELSE /\ pc' = "generate_invalid_sequence"
                  /\ candidate' \in RandomString(len)
                  /\ UNCHANGED <<gen_sequence, branch, samples, i>>
    /\ UNCHANGED <<variant, min_length, max_length, p, num_samples, loader_type,
                   valid_samples, invalid_samples, split, train_set, valid_set,
                   test_set, predVars, mlVars>>

\* the condition of the while loop of generate_invalid_sequence
RejectsCandidate_Never(v, s) == FALSE

\* a while loop whose condition is always true
RejectsCandidate_Always(v, s) == TRUE

RejectsCandidate(v, s) == is_language(v, s)

\* one iteration of the while loop of generate_invalid_sequence
RedrawInvalidSequence ==
    /\ pc = "generate_invalid_sequence"
    /\ RejectsCandidate(variant, candidate)
    /\ candidate' \in RandomString(length)
    /\ UNCHANGED <<variant, min_length, max_length, p, num_samples, loader_type, pc,
                   i, length, gen_sequence, branch, valid_samples, invalid_samples,
                   split, train_set, valid_set, test_set, samples, predVars, mlVars>>

\* generate_invalid_sequence returns and the loop body appends the sample
ReturnInvalidSequence ==
    /\ pc = "generate_invalid_sequence"
    /\ ~RejectsCandidate(variant, candidate)
    /\ gen_sequence' = candidate
    /\ branch' = "invalid"
    /\ samples' = Append(samples, <<candidate, ToInt(is_language(variant, candidate))>>)
    /\ i' = i + 1
    /\ pc' = "generate_samples"
    /\ UNCHANGED <<variant, min_length, max_length, p, num_samples, loader_type,
                   length, candidate, valid_samples, invalid_samples, split,
                   train_set, valid_set, test_set, predVars, mlVars>>

\* generate_samples returns the list, which becomes self.samples
GenerateSamplesReturn ==
    /\ pc = "generate_samples"
    /\ variant \in {"count", "pattern"}
    /\ i = num_samples
    /\ pc' = "done"
    /\ UNCHANGED <<variant, min_length, max_length, p, num_samples, loader_type, i,
                   length, candidate, gen_sequence, branch, valid_samples,
                   invalid_samples, split, train_set, valid_set, test_set, samples,
                   predVars, mlVars>>

RangeNext ==
    \/ GenerateSamplesIteration
    \/ RedrawInvalidSequence
    \/ ReturnInvalidSequence
    \/ GenerateSamplesReturn

----------------------------------------------------------------------------
(* LanguageDataset(num_samples, loader_type): the third class definition, which *)
(* builds a training, a validation and a test set.  Its lists are appended to   *)
(* and then shuffled with random.shuffle before they are returned, so a list is *)
(* modelled as the bag of its elements: len is BagCardinality.                  *)

TrainValidSizes_WithNine == <<3, 6, 9, 18>>

\* valid_sizes of generate_training_samples
TrainValidSizes == <<3, 6, 15, 18>>

ValidationValidSizes_WithEighteen == <<9, 18>>

\* valid_sizes of generate_validation_samples
ValidationValidSizes == <<9, 12>>

\* min_length of generate_test_samples
TestMinLength == 21

\* max_length of generate_test_samples
TestMaxLength == 100

LoaderTypes == {"train", "validation", "test", "other"}

\* np.random.choice(range(lo, hi)): any of lo .. hi - 1.  The model draws lo and
\* the first multiple of 3 of the range.
RandomChoiceRange(lo, hi) ==
    {k \in lo..(hi - 1) : k = lo \/ k = 3 * ((lo + 2) \div 3)}

\* the string a^n b^n c^(len - 2n), n = len // 3: the string of the language when
\* len is divisible by 3
ReferenceString(len) ==
    LET n == len \div 3
    IN  Rep("a", n) \o Rep("b", n) \o Rep("c", len - 2 * n)

\* generate_invalid_sequence(length) of the third class definition:
\* ''.join(np.random.choice(['a', 'b', 'c'], size=length)).  The model draws the
\* strings that differ from ReferenceString(length) in the first character at most.
generate_invalid_sequence(len) ==
    IF len = 0 THEN {<<>>}
    ELSE {[ReferenceString(len) EXCEPT ![1] = x] : x \in Alphabet}

\* sequence.replace('a', x)
Replace(s, x) == [k \in 1..Len(s) |-> IF s[k] = "a" THEN x ELSE s[k]]

\* list.append(x)
BagAppend(b, x) == b (+) SetToBag({x})

\* random.shuffle(samples): the elements in any order
Shuffle(b) == b

\* the body of the three invalid-sample loops: the sample appended for the drawn
\* string s, x being np.random.choice(['b', 'c'])
InvalidSample_NoReplace(s, x) == <<s, ToInt(is_language_pattern(s))>>

InvalidSample(s, x) ==
    IF is_language_pattern(s) = FALSE
    THEN <<s, ToInt(is_language_pattern(s))>>
    ELSE LET r == Replace(s, x) IN <<r, ToInt(is_language_pattern(r))>>

\* the sample appended by the valid-sample loops
ValidSample(n) ==
    LET s == generate_valid_sequence(n) IN <<s, ToInt(is_language_pattern(s))>>

\* number of samples for each valid size
PerSize(n, sizes) == n \div (2 * Len(sizes))

\* the list the two nested valid-sample loops build: n samples for each size
ValidSamplesOfSizes(sizes, n) ==
    IF n = 0 THEN EmptyBag
    ELSE [x \in {ValidSample(sizes[k] \div 3) : k \in 1..Len(sizes)} |-> n]

\* int(n * split) and int(n * (1 - split)) for split = k / SplitDenom
TestValidCount(n, k) == (n * k) \div SplitDenom
TestInvalidCount(n, k) == (n * (SplitDenom - k)) \div SplitDenom

SplitInit ==
    /\ variant = "split"
    /\ min_length = 1
    /\ max_length = 20
    /\ p = 0
    /\ num_samples \in 0..MaxSplitSamples
    /\ loader_type = "unread"
    /\ pc = "generate_training_samples"
    /\ i = 0 /\ length = 0 /\ candidate = <<>> /\ gen_sequence = <<>>
    /\ branch = "none"
    /\ valid_samples = EmptyBag /\ invalid_samples = EmptyBag /\ split = 0
    /\ train_set = EmptyBag /\ valid_set = EmptyBag /\ test_set = EmptyBag
    /\ samples = EmptyBag

\* what every step of the split constructor leaves alone
SplitFrame ==
    UNCHANGED <<variant, min_length, max_length, p, num_samples, length, candidate,
                gen_sequence, branch, predVars, mlVars>>

\* generate_training_samples, the valid-sample loops
TrainingValidLoops ==
    /\ pc = "generate_training_samples"
    /\ valid_samples' =
          ValidSamplesOfSizes(TrainValidSizes, PerSize(num_samples, TrainValidSizes))
    /\ i' = 0
    /\ pc' = "training_invalid"
    /\ UNCHANGED <<invalid_samples, split, train_set, valid_set, test_set, samples>>
    /\ UNCHANGED loader_type
    /\ SplitFrame

\* generate_training_samples, one iteration of the invalid-sample loop
TrainingInvalidIteration ==
    /\ pc = "training_invalid"
    /\ i < PerSize(num_samples, TrainValidSizes)
    /\ \E len \in RandomChoiceRange(1, max_length + 1) :
       \E s \in generate_invalid_sequence(len), x \in {"b", "c"} :
          invalid_samples' = BagAppend(invalid_samples, InvalidSample(s, x))
    /\ i' = i + 1
    /\ UNCHANGED <<pc, valid_samples, split, train_set, valid_set, test_set, samples>>
    /\ UNCHANGED loader_type
    /\ SplitFrame

\* generate_training_samples returns the shuffled list: self.train_set
TrainingReturn ==
    /\ pc = "training_invalid"
    /\ i = PerSize(num_samples, TrainValidSizes)
    /\ train_set' = Shuffle(valid_samples (+) invalid_samples)
    /\ valid_samples' = EmptyBag
    /\ invalid_samples' = EmptyBag
    /\ i' = 0
    /\ pc' = "generate_validation_samples"
    /\ UNCHANGED <<split, valid_set, test_set, samples>>
    /\ UNCHANGED loader_type
    /\ SplitFrame

\* generate_validation_samples, the valid-sample loops
ValidationValidLoops ==
    /\ pc = "generate_validation_samples"
    /\ valid_samples' =
          ValidSamplesOfSizes(ValidationValidSizes,
                              PerSize(num_samples, ValidationValidSizes))
    /\ i' = 0
    /\ pc' = "validation_invalid"
    /\ UNCHANGED <<invalid_samples, split, train_set, valid_set, test_set, samples>>
    /\ UNCHANGED loader_type
    /\ SplitFrame

\* generate_validation_samples, one iteration of the invalid-sample loop
ValidationInvalidIteration ==
    /\ pc = "validation_invalid"
    /\ i < PerSize(num_samples, ValidationValidSizes)
    /\ \E len \in RandomChoiceRange(1, max_length + 1) :
       \E s \in generate_invalid_sequence(len), x \in {"b", "c"} :
          invalid_samples' = BagAppend(invalid_samples, InvalidSample(s, x))
    /\ i' = i + 1
    /\ UNCHANGED <<pc, valid_samples, split, train_set, valid_set, test_set, samples>>
    /\ UNCHANGED loader_type
    /\ SplitFrame

\* generate_validation_samples returns the shuffled list: self.valid_set
ValidationReturn ==
    /\ pc = "validation_invalid"
    /\ i = PerSize(num_samples, ValidationValidSizes)
    /\ valid_set' = Shuffle(valid_samples (+) invalid_samples)
    /\ valid_samples' = EmptyBag
    /\ invalid_samples' = EmptyBag
    /\ i' = 0
    /\ pc' = "generate_test_samples"
    /\ UNCHANGED <<split, train_set, test_set, samples>>
    /\ UNCHANGED loader_type
    /\ SplitFrame

\* generate_test_samples draws split
TestDrawSplit ==
    /\ pc = "generate_test_samples"
    /\ split' \in 0..(SplitDenom - 1)
    /\ i' = 0
    /\ pc' = "test_valid"
    /\ UNCHANGED <<valid_samples, invalid_samples, train_set, valid_set, test_set,
                   samples>>
    /\ UNCHANGED loader_type
    /\ SplitFrame

\* generate_test_samples, one iteration of the valid-sample loop
TestValidIteration ==
    /\ pc = "test_valid"
    /\ i < TestValidCount(num_samples, split)
    /\ \E n \in RandomChoiceRange(TestMinLength \div 3, TestMaxLength \div 3) :
          valid_samples' = BagAppend(valid_samples, ValidSample(n))
    /\ i' = i + 1
    /\ UNCHANGED <<pc, invalid_samples, split, train_set, valid_set, test_set,
                   samples>>
    /\ UNCHANGED loader_type
    /\ SplitFrame

\* generate_test_samples, from the valid-sample loop to the invalid-sample loop
TestValidLoopExit ==
    /\ pc = "test_valid"
    /\ i = TestValidCount(num_samples, split)
    /\ i' = 0
    /\ pc' = "test_invalid"
    /\ UNCHANGED <<valid_samples, invalid_samples, split, train_set, valid_set,
                   test_set, samples>>
    /\ UNCHANGED loader_type
    /\ SplitFrame

\* generate_test_samples, one iteration of the invalid-sample loop
TestInvalidIteration ==
    /\ pc = "test_invalid"
    /\ i < TestInvalidCount(num_samples, split)
    /\ \E len \in RandomChoiceRange(TestMinLength, TestMaxLength) :
       \E s \in generate_invalid_sequence(len), x \in {"b", "c"} :
          invalid_samples' = BagAppend(invalid_samples, InvalidSample(s, x))
    /\ i' = i + 1
    /\ UNCHANGED <<pc, valid_samples, split, train_set, valid_set, test_set, samples>>
    /\ UNCHANGED loader_type
    /\ SplitFrame

\* generate_test_samples returns the shuffled list: self.test_set
TestReturn ==
    /\ pc = "test_invalid"
    /\ i = TestInvalidCount(num_samples, split)
    /\ test_set' = Shuffle(valid_samples (+) invalid_samples)
    /\ valid_samples' = EmptyBag
    /\ invalid_samples' = EmptyBag
    /\ i' = 0
    /\ pc' = "generate_samples"
    /\ UNCHANGED <<split, train_set, valid_set, samples>>
    /\ UNCHANGED loader_type
    /\ SplitFrame

\* generate_samples with the final else branch returning the training set
\* instead of raising
SelectSamples_NoRaise ==
    /\ pc = "generate_samples"
    /\ variant = "split"
    /\ \E lt \in LoaderTypes :
          /\ loader_type' = lt
          /\ IF lt = "validation" THEN samples' = valid_set
             ELSE IF lt = "test" THEN samples' = test_set
             ELSE samples' = train_set
          /\ pc' = "done"
    /\ UNCHANGED <<i, valid_samples, invalid_samples, split, train_set, valid_set,
                   test_set>>
    /\ SplitFrame

\* generate_samples(loader_type) and the rest of __init__.  The constructor's
\* argument loader_type is stored in self.loader_type before the three sets are
\* generated and is read here for the first time: the model draws it here.
SelectSamples ==
    /\ pc = "generate_samples"
    /\ variant = "split"
    /\ \E lt \in LoaderTypes :
          /\ loader_type' = lt
          /\ IF lt = "train" THEN samples' = train_set /\ pc' = "done"
             ELSE IF lt = "validation" THEN samples' = valid_set /\ pc' = "done"
             ELSE IF lt = "test" THEN samples' = test_set /\ pc' = "done"
             ELSE samples' = samples /\ pc' = "ValueError"
    /\ UNCHANGED <<i, valid_samples, invalid_samples, split, train_set, valid_set,
                   test_set>>
    /\ SplitFrame

SplitNext ==
    \/ TrainingValidLoops
    \/ TrainingInvalidIteration
    \/ TrainingReturn
    \/ ValidationValidLoops
    \/ ValidationInvalidIteration
    \/ ValidationReturn
    \/ TestDrawSplit
    \/ TestValidIteration
    \/ TestValidLoopExit
    \/ TestInvalidIteration
    \/ TestReturn
    \/ SelectSamples

----------------------------------------------------------------------------
(* The predicates, called on every string *)

PredicateInit == PredInit /\ DataIdle /\ MlIdle

PredicateNext == CallFollowsPattern \/ CallIsLanguageCount \/ CallIsLanguagePattern

PredicateSpec == PredicateInit /\ [][PredicateNext]_vars

----------------------------------------------------------------------------
(* Claims about the predicates *)

\* the string 'a'*n + 'b'*n + 'c'*n
ValidString(n) == Rep("a", n) \o Rep("b", n) \o Rep("c", n)

\* s has the form a^n b^n c^n for some n >= 0, which can only be len(s) / 3
InLanguage(s) == \E n \in {Len(s) \div 3} : s = ValidString(n)

\* len(s) is divisible by 3 and the first third is all 'a', the second all 'b' and
\* the last all 'c'
ThirdsAreABC(s) ==
    /\ Len(s) % 3 = 0
    /\ \A k \in 1..Len(s) :
          s[k] = IF 3 * k <= Len(s) THEN "a"
                 ELSE IF 3 * k <= 2 * Len(s) THEN "b" ELSE "c"

\* C1: follows_pattern returns 1, and the pattern-based is_language True, exactly
\* on the strings whose thirds are a's, b's and c's, and 0 / False on every other
\* string; in particular "aaabbbccc" and "abc" give 1 and "abccba" gives 0.
C1_PatternPredicates ==
    /\ called = "follows_pattern" =>
          /\ result = IF ThirdsAreABC(sequence) THEN 1 ELSE 0
          /\ sequence = <<"a", "a", "a", "b", "b", "b", "c", "c", "c">> => result = 1
          /\ sequence = <<"a", "b", "c", "c", "b", "a">> => result = 0
          /\ sequence = <<"a", "b", "c">> => result = 1
    /\ called = "is_language_pattern" => result = ThirdsAreABC(sequence)

C1_Witness ==
    /\ called = "follows_pattern"
    /\ sequence = <<"a", "a", "a", "b", "b", "b", "c", "c", "c">>
    /\ result = 1

\* C2: every string 'a'*n + 'b'*n + 'c'*n, the empty string included, satisfies
\* each of the three predicates.
C2_ValidStringsAccepted ==
    InLanguage(sequence) =>
        /\ called = "follows_pattern" => result = 1
        /\ called = "is_language_count" => result = TRUE
        /\ called = "is_language_pattern" => result = TRUE

C2_Witness ==
    /\ called = "is_language_pattern"
    /\ sequence = ValidString(2)
    /\ result = TRUE

\* C3: a string whose length is not divisible by 3 satisfies none of the three
\* predicates.
C3_LengthNotDivisibleRejected ==
    Len(sequence) % 3 # 0 =>
        /\ called = "follows_pattern" => result = 0
        /\ called = "is_language_count" => result = FALSE
        /\ called = "is_language_pattern" => result = FALSE

C3_Witness ==
    /\ called = "is_language_count"
    /\ sequence = <<"a", "b", "a", "b">>
    /\ result = FALSE

DatasetInit == PredIdle /\ MlIdle /\ (RangeInit \/ SplitInit)

DatasetNext == RangeNext \/ SplitNext

DatasetSpec == DatasetInit /\ [][DatasetNext]_vars

----------------------------------------------------------------------------
(* Claims about the datasets *)

\* the samples of a list of the range variants / of a list of the split variant
ListSamples(l) == {l[k] : k \in 1..Len(l)}
BagSamples(b) == BagToSet(b)

\* every sample generated so far, in any list of the constructor
GeneratedSamples ==
    IF variant = "split"
    THEN BagSamples(train_set) \cup BagSamples(valid_set) \cup BagSamples(test_set)
         \cup BagSamples(valid_samples) \cup BagSamples(invalid_samples)
         \cup BagSamples(samples)
    ELSE ListSamples(samples)

\* the strings of a set of samples, and those labelled 1
StringsOf(S) == {x[1] : x \in S}
PositiveStringsOf(S) == {x[1] : x \in {y \in S : y[2] = 1}}

\* C5: in every variant a generated sample is labelled 1 if and only if its string
\* has the form a^n b^n c^n.
C5_LabelIffInLanguage ==
    \A x \in GeneratedSamples : x[2] \in {0, 1} /\ (x[2] = 1 <=> InLanguage(x[1]))

C5_Witness ==
    /\ variant = "split" /\ pc = "done" /\ loader_type = "test"
    /\ \E x, y \in BagSamples(samples) : x[2] = 1 /\ y[2] = 0 /\ Len(x[1]) = Len(y[1])

\* C6: the string generate_invalid_sequence returns in the range variants is not of
\* the form a^n b^n c^n, and every sample the invalid-sample loops of the split
\* variant append has label 0.
C6_InvalidNeverValid ==
    /\ branch = "invalid" => ~InLanguage(gen_sequence)
    /\ variant = "split" => \A x \in BagSamples(invalid_samples) : x[2] = 0

C6_Witness ==
    /\ variant = "split" /\ pc = "test_invalid"
    /\ BagIn(<<Replace(ValidString(7), "b"), 0>>, invalid_samples)

\* C7 as claimed: every sequence of LanguageDataset(min_length, max_length, p,
\* num_samples) has a length from min_length to max_length.
C7_LengthWithinRange ==
    variant \in {"count", "pattern"} =>
        \A x \in ListSamples(samples) :
            min_length <= Len(x[1]) /\ Len(x[1]) <= max_length

\* len(dataset)
DatasetLen == IF variant = "split" THEN BagCardinality(samples) ELSE Len(samples)

\* C8 as claimed: len(dataset) == num_samples for every constructed dataset.
C8_LenIsNumSamples == pc = "done" => DatasetLen = num_samples

\* C9 as claimed: no string occurs in more than one of train_set, valid_set and
\* test_set.
C9_Original ==
    (variant = "split" /\ pc = "done") =>
        /\ StringsOf(BagSamples(train_set)) \cap StringsOf(BagSamples(valid_set)) = {}
        /\ StringsOf(BagSamples(train_set)) \cap StringsOf(BagSamples(test_set)) = {}
        /\ StringsOf(BagSamples(valid_set)) \cap StringsOf(BagSamples(test_set)) = {}

\* C9 as amended: no string of test_set occurs in train_set or valid_set, and a
\* string that occurs in both train_set and valid_set is labelled 0 in both.
C9_NoLeakExceptInvalid ==
    (variant = "split" /\ pc = "done") =>
        /\ StringsOf(BagSamples(train_set)) \cap StringsOf(BagSamples(test_set)) = {}
        /\ StringsOf(BagSamples(valid_set)) \cap StringsOf(BagSamples(test_set)) = {}
        /\ \A x \in BagSamples(train_set), y \in BagSamples(valid_set) :
              x[1] = y[1] => x[2] = 0 /\ y[2] = 0

C9_Witness ==
    /\ variant = "split" /\ pc = "done"
    /\ \E x \in BagSamples(train_set) : x \in BagSamples(valid_set)
    /\ test_set # EmptyBag

\* C10: the strings of train_set and valid_set have 1 to 20 characters and those of
\* test_set 21 to 100; the strings labelled 1 have 3, 6, 15 or 18 characters in
\* train_set and 9 or 12 in valid_set, and those of the three sets are pairwise
\* disjoint; no string of test_set occurs in train_set or valid_set.
C10_SplitByLength ==
    variant = "split" =>
        LET train == BagSamples(train_set)
            valid == BagSamples(valid_set)
            test == BagSamples(test_set)
        IN  /\ \A x \in train \cup valid : 1 <= Len(x[1]) /\ Len(x[1]) <= 20
            /\ \A x \in test : 21 <= Len(x[1]) /\ Len(x[1]) <= 100
            /\ \A s \in PositiveStringsOf(train) : Len(s) \in {3, 6, 15, 18}
            /\ \A s \in PositiveStringsOf(valid) : Len(s) \in {9, 12}
            /\ PositiveStringsOf(train) \cap PositiveStringsOf(valid) = {}
            /\ PositiveStringsOf(train) \cap PositiveStringsOf(test) = {}
            /\ PositiveStringsOf(valid) \cap PositiveStringsOf(test) = {}
            /\ StringsOf(test) \cap StringsOf(train \cup valid) = {}

C10_Witness ==
    /\ variant = "split" /\ pc = "done"
    /\ BagCardinality(train_set) = 5
    /\ BagCardinality(valid_set) = 6
    /\ PositiveStringsOf(BagSamples(test_set)) # {}
    /\ \E x \in BagSamples(test_set) : x[2] = 0

----------------------------------------------------------------------------
(* C11 *)

\* C11: once the split constructor has read loader_type, either it is 'train',
\* 'validation' or 'test', the constructor has finished and self.samples is
\* exactly train_set, valid_set or test_set respectively, or it is anything
\* else, the constructor has stopped with ValueError and self.samples was never
\* assigned (no dataset object results).
C11_LoaderTypeSelectsOrRaises ==
    (variant = "split" /\ loader_type # "unread") =>
        /\ loader_type = "train" => (pc = "done" /\ samples = train_set)
        /\ loader_type = "validation" => (pc = "done" /\ samples = valid_set)
        /\ loader_type = "test" => (pc = "done" /\ samples = test_set)
        /\ loader_type \notin {"train", "validation", "test"} =>
              (pc = "ValueError" /\ samples = EmptyBag)

\* a constructor with an unsupported loader type has raised although its three
\* sets were generated and are not empty
C11_Witness ==
    /\ variant = "split" /\ pc = "ValueError" /\ loader_type = "other"
    /\ train_set # EmptyBag /\ valid_set # EmptyBag /\ test_set # EmptyBag
    /\ samples = EmptyBag

----------------------------------------------------------------------------
(* The training loops and the evaluation loops: train_model of tove1.ipynb  *)
(* (each epoch trains on every mini-batch and then validates), train_model  *)
(* followed by eval_model of feedforwardAssignment_ORIGINAL.ipynb, and      *)
(* training_loop followed by evaluate_model of feedForwardMNIST.ipynb.      *)
(*                                                                          *)
(* The evaluation set is the sequence of its true labels.  A model is fixed *)
(* during one evaluation pass, so its predictions over the set are drawn    *)
(* once per pass.  An accuracy correct / total is the pair <<correct,       *)
(* total>>, compared by cross-multiplication.                               *)

\* num_epochs is at most MaxEpochs
MaxEpochs == 2
\* the training loader has at most MaxBatches mini-batches
MaxBatches == 2
\* the digit classes of evaluate_model: [0 for i in range(10)]
MnistClasses == 10
\* the images evaluate_model's per-class loop reads of a batch: for i in range(10)
ClassLoopRange == 10

Notebooks == {"tove1", "feedforward", "mnist"}

\* the number of label values: 10 digits, two classes in the other notebooks
NumClasses(nb) == IF nb = "mnist" THEN MnistClasses ELSE 2

\* the sizes of the evaluation set and the batch sizes of its loader
DatasetSizes(nb) == IF nb = "mnist" THEN {0, 1, 10, 11, 20} ELSE {0, 1, 3, 4}
BatchSizes == {2, 10, 64}

Min(a, b) == IF a < b THEN a ELSE b

\* the label sequences of the evaluation sets: the classes in rotation, or one class
LabelFamilies(nb) ==
    {[j \in 1..n |-> (j - 1) % NumClasses(nb)] : n \in DatasetSizes(nb)}
    \cup {[j \in 1..n |-> NumClasses(nb) - 1] : n \in DatasetSizes(nb)}

\* the examples a model may classify correctly: none, all, the first only, all
\* but the first, every second one
CorrectSets(n) == {{}, 1..n, {1} \cap 1..n, 2..n, {j \in 1..n : j % 2 = 1}}

\* torch.max(outputs.data, 1) over the whole set: a wrong prediction is the next class
Predictions(lbls, nb) ==
    {[j \in 1..Len(lbls) |-> IF j \in S THEN lbls[j] ELSE (lbls[j] + 1) % NumClasses(nb)] :
        S \in CorrectSets(Len(lbls))}

\* len(loader): the last batch may be smaller
NumEvalBatches == (Len(labels) + batch_size - 1) \div batch_size

\* a loader that drops a smaller last batch
BatchIdx_FullBatchesOnly(k) ==
    IF (k + 1) * batch_size <= Len(labels)
    THEN (k * batch_size + 1)..((k + 1) * batch_size) ELSE {}

\* the examples of batch k (from 0) of the evaluation loader
BatchIdx(k) == (k * batch_size + 1)..Min((k + 1) * batch_size, Len(labels))

\* (predicted == labels).sum() of batch k
BatchCorrect(k) == Cardinality({j \in BatchIdx(k) : predicted[j] = labels[j]})

\* a division that returns 0 for an empty set
Divide_ZeroIsZero(c, t) == IF t = 0 THEN <<0, 1>> ELSE <<c, t>>

\* correct / total
Divide(c, t) == IF t = 0 THEN "ZeroDivisionError" ELSE <<c, t>>

\* val_acc > best_val_acc
Gt(a, b) == a[1] * b[2] > b[1] * a[2]

\* a loop body that never zeroes the gradients
OpsOrder_NoZeroGrad(nb) == <<"forward", "backward", "step">>

\* the calls of one iteration of the training loop body, in program order
OpsOrder(nb) ==
    IF nb = "feedforward"
    THEN <<"forward", "zero_grad", "backward", "step">>
    ELSE <<"zero_grad", "forward", "backward", "step">>

\* the next call of the loop body
NextOp == OpsOrder(notebook)[Len(batch_ops) + 1]

LearnInit ==
    /\ notebook \in Notebooks
    /\ lpc = "epoch_for"
    /\ num_epochs \in 0..MaxEpochs
    /\ n_batches \in 0..MaxBatches
    /\ epoch = 0 /\ times = 0 /\ batch_ops = <<>> /\ grad = {} /\ n_steps = 0
    /\ step_grad = {}
    /\ labels \in LabelFamilies(notebook)
    /\ batch_size \in BatchSizes
    /\ predicted = <<>> /\ eval_idx = 0 /\ correct = 0 /\ total = 0
    /\ val_acc = <<0, 1>> /\ best_val_acc = <<0, 1>> /\ best_model = "None" /\ best_epoch = 0
    /\ class_correct = <<>> /\ class_total = <<>>

\* what every step of these loops leaves alone
LearnFrame == UNCHANGED <<predVars, dataVars, gridVars, mergeVars, ckptVars, rnnVars, notebook,
                          num_epochs, n_batches, labels, batch_size>>

trainVars == <<epoch, times, batch_ops, grad, n_steps, step_grad>>
evalVars == <<predicted, eval_idx, correct, total, val_acc, best_val_acc, best_model, best_epoch,
              class_correct, class_total>>

\* for epoch in range(num_epochs): the next epoch starts
EpochForNext ==
    /\ lpc = "epoch_for"
    /\ epoch < num_epochs
    /\ lpc' = "train_for"
    /\ times' = 0
    /\ UNCHANGED <<epoch, batch_ops, grad, n_steps, step_grad, evalVars>>
    /\ LearnFrame

\* for epoch in range(num_epochs): the loop is exhausted and the function returns
EpochForExit ==
    /\ lpc = "epoch_for"
    /\ epoch = num_epochs
    /\ lpc' = "returned"
    /\ UNCHANGED <<trainVars, evalVars>>
    /\ LearnFrame

\* for ... in train_loader: the next mini-batch is fetched
TrainForNext ==
    /\ lpc = "train_for"
    /\ times < n_batches
    /\ lpc' = "train_body"
    /\ batch_ops' = <<>>
    /\ UNCHANGED <<epoch, times, grad, n_steps, step_grad, evalVars>>
    /\ LearnFrame

\* optimizer.zero_grad()
ZeroGrad ==
    /\ lpc = "train_body"
    /\ NextOp = "zero_grad"
    /\ grad' = {}
    /\ batch_ops' = Append(batch_ops, "zero_grad")
    /\ UNCHANGED <<lpc, epoch, times, n_steps, step_grad, evalVars>>
    /\ LearnFrame

\* outputs = model(...) and loss = criterion(outputs, labels)
Forward ==
    /\ lpc = "train_body"
    /\ NextOp = "forward"
    /\ batch_ops' = Append(batch_ops, "forward")
    /\ UNCHANGED <<lpc, epoch, times, grad, n_steps, step_grad, evalVars>>
    /\ LearnFrame

\* loss.backward(): the gradients of this mini-batch are added to .grad
Backward ==
    /\ lpc = "train_body"
    /\ NextOp = "backward"
    /\ grad' = grad \cup {<<epoch, times>>}
    /\ batch_ops' = Append(batch_ops, "backward")
    /\ UNCHANGED <<lpc, epoch, times, n_steps, step_grad, evalVars>>
    /\ LearnFrame

\* optimizer.step(), the last statement of the loop body
OptimizerStep ==
    /\ lpc = "train_body"
    /\ NextOp = "step"
    /\ n_steps' = n_steps + 1
    /\ step_grad' = grad
    /\ batch_ops' = Append(batch_ops, "step")
    /\ times' = times + 1
    /\ lpc' = "train_for"
    /\ UNCHANGED <<epoch, grad, evalVars>>
    /\ LearnFrame

\* a loader that stops after any number of mini-batches
TrainLoaderExhausted_Early == times <= n_batches

\* the for loop over the training loader ends when it has yielded every mini-batch
TrainLoaderExhausted == times = n_batches

\* for ... in train_loader is exhausted; train_model of tove1 goes on to the
\* validation of the epoch: model.eval(); correct = 0; total = 0
TrainForExitValidation ==
    /\ lpc = "train_for"
    /\ TrainLoaderExhausted
    /\ notebook = "tove1"
    /\ lpc' = "eval_for"
    /\ predicted' \in Predictions(labels, notebook)
    /\ eval_idx' = 0 /\ correct' = 0 /\ total' = 0
    /\ UNCHANGED <<trainVars, val_acc, best_val_acc, best_model, best_epoch, class_correct,
                   class_total>>
    /\ LearnFrame

\* for ... in loader is exhausted and the epoch ends (the loops without validation)
TrainForExit ==
    /\ lpc = "train_for"
    /\ TrainLoaderExhausted
    /\ notebook \in {"feedforward", "mnist"}
    /\ epoch' = epoch + 1
    /\ lpc' = "epoch_for"
    /\ UNCHANGED <<times, batch_ops, grad, n_steps, step_grad, evalVars>>
    /\ LearnFrame

\* eval_model(model, test_data_loader) / evaluate_model(net, testLoader) is called
\* on the trained model
CallEvaluate ==
    /\ lpc = "returned"
    /\ notebook \in {"feedforward", "mnist"}
    /\ lpc' = "eval_for"
    /\ predicted' \in Predictions(labels, notebook)
    /\ eval_idx' = 0 /\ correct' = 0 /\ total' = 0
    /\ UNCHANGED <<trainVars, val_acc, best_val_acc, best_model, best_epoch, class_correct,
                   class_total>>
    /\ LearnFrame

\* one iteration of an evaluation loop, under torch.no_grad()
EvalBatch ==
    /\ lpc = "eval_for"
    /\ eval_idx < NumEvalBatches
    /\ total' = total + Cardinality(BatchIdx(eval_idx))
    /\ correct' = correct + BatchCorrect(eval_idx)
    /\ eval_idx' = eval_idx + 1
    /\ UNCHANGED <<lpc, trainVars, predicted, val_acc, best_val_acc, best_model, best_epoch,
                   class_correct, class_total>>
    /\ LearnFrame

\* train_model of tove1 after the validation loop: val_acc = correct / total and
\* the best model so far
ValidationExit ==
    /\ lpc = "eval_for"
    /\ eval_idx = NumEvalBatches
    /\ notebook = "tove1"
    /\ IF Divide(correct, total) = "ZeroDivisionError"
       THEN /\ lpc' = "ZeroDivisionError"
            /\ UNCHANGED <<epoch, val_acc, best_val_acc, best_model, best_epoch>>
       ELSE /\ val_acc' = Divide(correct, total)
            /\ IF Gt(val_acc', best_val_acc)
               THEN /\ best_val_acc' = val_acc'
                    /\ best_model' = "model"
                    /\ best_epoch' = epoch + 1
               ELSE UNCHANGED <<best_val_acc, best_model, best_epoch>>
            /\ epoch' = epoch + 1
            /\ lpc' = "epoch_for"
    /\ UNCHANGED <<times, batch_ops, grad, n_steps, step_grad, predicted, eval_idx,
                   correct, total, class_correct, class_total>>
    /\ LearnFrame

\* eval_model after its loop: acc = true_preds / num_preds; return acc
EvalModelExit ==
    /\ lpc = "eval_for"
    /\ eval_idx = NumEvalBatches
    /\ notebook = "feedforward"
    /\ IF Divide(correct, total) = "ZeroDivisionError"
       THEN lpc' = "ZeroDivisionError" /\ UNCHANGED val_acc
       ELSE val_acc' = Divide(correct, total) /\ lpc' = "done"
    /\ UNCHANGED <<trainVars, predicted, eval_idx, correct, total, best_val_acc,
                   best_model, best_epoch, class_correct, class_total>>
    /\ LearnFrame

\* evaluate_model after its first loop: the per-class lists are created and the
\* loader is iterated again
OverallCountsExit ==
    /\ lpc = "eval_for"
    /\ eval_idx = NumEvalBatches
    /\ notebook = "mnist"
    /\ class_correct' = [c \in 1..MnistClasses |-> 0]
    /\ class_total' = [c \in 1..MnistClasses |-> 0]
    /\ eval_idx' = 0
    /\ lpc' = "class_for"
    /\ UNCHANGED <<trainVars, predicted, correct, total, val_acc, best_val_acc,
                   best_model, best_epoch>>
    /\ LearnFrame

\* the iterations of `for i in range(10)` on batch k that complete: labels[i]
\* raises IndexError past the end of the batch, and c[i] raises it at once when
\* the batch has one image, since squeeze() then leaves c without a dimension
ClassLoopCompleted(k) ==
    LET size == Cardinality(BatchIdx(k))
    IN  IF size = 1 THEN 0 ELSE Min(size, ClassLoopRange)

\* one iteration of the second loop of evaluate_model; list index c + 1 is class c
ClassBatch ==
    /\ lpc = "class_for"
    /\ eval_idx < NumEvalBatches
    /\ LET first == eval_idx * batch_size + 1
           read == first..(first + ClassLoopCompleted(eval_idx) - 1)
       IN  /\ class_total' =
                 [c \in 1..MnistClasses |->
                     class_total[c] + Cardinality({j \in read : labels[j] = c - 1})]
           /\ class_correct' =
                 [c \in 1..MnistClasses |->
                     class_correct[c]
                     + Cardinality({j \in read : labels[j] = c - 1
                                                 /\ predicted[j] = labels[j]})]
           /\ lpc' = IF ClassLoopCompleted(eval_idx) < ClassLoopRange
                     THEN "IndexError" ELSE "class_for"
    /\ eval_idx' = eval_idx + 1
    /\ UNCHANGED <<trainVars, predicted, correct, total, val_acc, best_val_acc,
                   best_model, best_epoch>>
    /\ LearnFrame

\* evaluate_model returns (correct, total, class_correct, class_total)
ClassForExit ==
    /\ lpc = "class_for"
    /\ eval_idx = NumEvalBatches
    /\ lpc' = "done"
    /\ UNCHANGED <<trainVars, evalVars>>
    /\ LearnFrame

LearnNext ==
    \/ EpochForNext
    \/ EpochForExit
    \/ TrainForNext
    \/ ZeroGrad
    \/ Forward
    \/ Backward
    \/ OptimizerStep
    \/ TrainForExitValidation
    \/ TrainForExit
    \/ CallEvaluate
    \/ EvalBatch
    \/ ValidationExit
    \/ EvalModelExit
    \/ OverallCountsExit
    \/ ClassBatch
    \/ ClassForExit

LearnSpecInit ==
    PredIdle /\ DataIdle /\ GridIdle /\ MergeIdle /\ CkptIdle /\ RnnIdle /\ LearnInit

LearnSpec == LearnSpecInit /\ [][LearnNext]_vars

----------------------------------------------------------------------------
(* C12, C13, C14, C16 *)

\* the training loop of the run has returned
TrainingReturned ==
    \/ lpc = "returned"
    \/ notebook \in {"feedforward", "mnist"}
       /\ lpc \in {"eval_for", "class_for", "done", "ZeroDivisionError", "IndexError"}

\* the optimizer and autograd calls among the calls of the loop body
OptimizerCalls(ops) == SelectSeq(ops, LAMBDA o : o # "forward")

IsPrefix(s, t) == Len(s) <= Len(t) /\ s = SubSeq(t, 1, Len(s))

\* C12: in each of the three training loops the optimizer has stepped once for
\* every mini-batch fetched so far and, when the loop returns after num_epochs
\* epochs of n_batches mini-batches, exactly num_epochs * n_batches times; the
\* calls of one iteration are zero_grad, then backward, then step, once each; and
\* the gradient a step applies is that of one mini-batch only.
C12_OneStepPerBatch ==
    notebook # "none" =>
        /\ TrainingReturned => n_steps = num_epochs * n_batches
        /\ lpc \in {"train_for", "train_body"} => n_steps = epoch * n_batches + times
        /\ IsPrefix(OptimizerCalls(batch_ops), <<"zero_grad", "backward", "step">>)
        /\ (batch_ops # <<>> /\ batch_ops[Len(batch_ops)] = "step") =>
              OptimizerCalls(batch_ops) = <<"zero_grad", "backward", "step">>
        /\ n_steps > 0 => Cardinality(step_grad) = 1
        /\ Cardinality(grad) <= 1

\* two epochs of two mini-batches have been trained, by the loop that computes the
\* loss before it zeroes the gradients, and by one that zeroes them first
C12_Witness ==
    /\ lpc = "returned" /\ num_epochs = 2 /\ n_batches = 2 /\ n_steps = 4
    /\ notebook \in {"feedforward", "tove1"}
    /\ batch_ops[Len(batch_ops)] = "step"

\* the examples among the first n whose predicted label equals the true label,
\* counted over the whole set at once
Matches(n) == Cardinality({j \in 1..n : predicted[j] = labels[j]})

\* an evaluation loop has run over the whole loader and its counts are still held
EvalLoopFinished ==
    \/ lpc = "eval_for" /\ eval_idx = NumEvalBatches
    \/ lpc \in {"class_for", "done", "IndexError"}
    \/ /\ notebook = "tove1" /\ epoch >= 1
       /\ lpc \in {"epoch_for", "train_for", "train_body", "returned"}

\* C13: in the validation loop of train_model, the first loop of evaluate_model
\* and eval_model, after eval_idx batches total is the number of examples of
\* these batches and correct the number of them predicted right; after the loop
\* over a set of N >= 1 examples total = N, 0 <= correct <= total, correct is the
\* number of the N examples whose predicted label equals the true label, and the
\* accuracy computed from them is that fraction.
C13_EvaluationCounts ==
    notebook # "none" =>
        /\ lpc = "eval_for" =>
              /\ total = Min(eval_idx * batch_size, Len(labels))
              /\ correct = Matches(total)
        /\ (EvalLoopFinished /\ Len(labels) >= 1) =>
              /\ total = Len(labels)
              /\ 0 <= correct /\ correct <= total
              /\ correct = Matches(Len(labels))
        /\ (Len(labels) >= 1
            /\ \/ notebook = "feedforward" /\ lpc = "done"
               \/ notebook = "tove1" /\ epoch >= 1 /\ lpc \in {"epoch_for", "returned"}) =>
              /\ val_acc = <<Matches(Len(labels)), Len(labels)>>
              /\ 0 <= val_acc[1] /\ val_acc[1] <= val_acc[2]

\* a loader of a full batch and a smaller last batch has been evaluated, some
\* predictions right and some wrong
C13_Witness ==
    /\ lpc = "eval_for" /\ eval_idx = NumEvalBatches
    /\ Len(labels) = 3 /\ batch_size = 2 /\ eval_idx = 2
    /\ total = 3 /\ correct = 2

\* C14: train_model of tove1 with an empty validation loader and at least one
\* epoch never returns: it stays in its first epoch, and when the division
\* correct / total raises ZeroDivisionError the optimizer has stepped for every
\* mini-batch of that epoch and no best model was recorded.
C14_EmptyValidationRaises ==
    (notebook = "tove1" /\ Len(labels) = 0 /\ num_epochs >= 1) =>
        /\ lpc # "returned"
        /\ epoch = 0
        /\ lpc \in {"eval_for", "ZeroDivisionError"} =>
              (total = 0 /\ times = n_batches /\ n_steps = n_batches)
        /\ lpc = "ZeroDivisionError" => (best_model = "None" /\ best_val_acc = <<0, 1>>)

\* the division has failed after the two optimizer steps of the first epoch
C14_Witness ==
    /\ notebook = "tove1" /\ Len(labels) = 0 /\ lpc = "ZeroDivisionError"
    /\ num_epochs = 2 /\ n_batches = 2 /\ n_steps = 2

RECURSIVE SumSeq(_)
SumSeq(s) == IF s = <<>> THEN 0 ELSE s[1] + SumSeq(Tail(s))

\* C16: evaluate_model never stops with IndexError and, when it returns, for
\* every class c class_total[c] is the number of images of the loader labelled c
\* and class_correct[c] the number of those classified correctly, so that the
\* lists sum to total and correct.
C16_PerClassCounts ==
    notebook = "mnist" =>
        /\ lpc # "IndexError"
        /\ lpc = "done" =>
              /\ \A c \in 0..(MnistClasses - 1) :
                    /\ class_total[c + 1] =
                          Cardinality({j \in 1..Len(labels) : labels[j] = c})
                    /\ class_correct[c + 1] =
                          Cardinality({j \in 1..Len(labels) :
                                          labels[j] = c /\ predicted[j] = labels[j]})
              /\ SumSeq(class_total) = total
              /\ SumSeq(class_correct) = correct

----------------------------------------------------------------------------
(* The hyper-parameter search cell of tove1.ipynb (the cell of the LSTM      *)
(* notebook is the same but for the model class): for every combination a    *)
(* new model is trained by train_model, whose return value replaces `model`. *)
(* train_model returns its best_model, which is None exactly when no epoch   *)
(* had a validation accuracy above 0, and its best_val_acc.  None is the     *)
(* tuple <<"None">> and a model the tuple of its class and hyper-parameters. *)

hidden_sizes == <<16, 32, 64>>
\* in thousandths
learning_rates == <<1, 10, 100>>

\* the validation accuracies train_model may return
Accuracies == {<<0, 1>>, <<1, 2>>, <<1, 1>>}

\* a comparison that also replaces the best on a tie
Improves_OrEqual(a, b) == ~Gt(b, a)

\* if val_acc > best_val_acc
Improves(a, b) == Gt(a, b)

\* what train_model returns for the model of this combination and this accuracy
TrainModelReturns(hs, rate, acc) ==
    IF Gt(acc, <<0, 1>>) THEN <<<<"RNN", hs, rate>>, acc>> ELSE <<<<"None">>, acc>>

GridInit ==
    /\ gpc = "grid_for"
    /\ grid_k = 0 /\ hidden_size = 0 /\ lr = 0
    /\ grid_model = <<"None">> /\ grid_val_acc = <<0, 1>>
    /\ grid_best_val_acc = <<0, 1>>
    /\ grid_best_model = <<"None">>
    /\ grid_returned = <<>>

\* one iteration of the inner loop: the model is built and trained, and kept if
\* its validation accuracy is greater than the best so far
GridIteration ==
    /\ gpc = "grid_for"
    /\ grid_k < Len(hidden_sizes) * Len(learning_rates)
    /\ LET hs == hidden_sizes[(grid_k \div Len(learning_rates)) + 1]
           rate == learning_rates[(grid_k % Len(learning_rates)) + 1]
       IN  \E acc \in Accuracies :
              LET ret == TrainModelReturns(hs, rate, acc)
              IN  /\ hidden_size' = hs
                  /\ lr' = rate
                  /\ grid_model' = ret[1]
                  /\ grid_val_acc' = ret[2]
                  /\ grid_returned' = Append(grid_returned, ret)
                  /\ IF Improves(ret[2], grid_best_val_acc)
                     THEN grid_best_val_acc' = ret[2] /\ grid_best_model' = ret[1]
                     ELSE UNCHANGED <<grid_best_val_acc, grid_best_model>>
    /\ grid_k' = grid_k + 1
    /\ UNCHANGED <<gpc, predVars, dataVars, learnVars, mergeVars, ckptVars, rnnVars>>

\* the loops are exhausted: print(f'Best validation accuracy: {best_val_acc}')
GridExit ==
    /\ gpc = "grid_for"
    /\ grid_k = Len(hidden_sizes) * Len(learning_rates)
    /\ gpc' = "done"
    /\ UNCHANGED <<grid_k, hidden_size, lr, grid_model, grid_val_acc, grid_best_val_acc,
                   grid_best_model, grid_returned>>
    /\ UNCHANGED <<predVars, dataVars, learnVars, mergeVars, ckptVars, rnnVars>>

GridNext == GridIteration \/ GridExit

GridSpecInit ==
    PredIdle /\ DataIdle /\ LearnIdle /\ MergeIdle /\ CkptIdle /\ RnnIdle /\ GridInit

GridSpec == GridSpecInit /\ [][GridNext]_vars

----------------------------------------------------------------------------
(* C15 *)

\* the accuracies train_model has returned
ReturnedAccuracies == {grid_returned[k][2] : k \in 1..Len(grid_returned)}

\* C15: when the grid loop has finished, best_val_acc is the greatest validation
\* accuracy train_model returned over the nine combinations and best_model is the
\* model train_model returned for a combination with that accuracy, a trained
\* model and not None.
C15_BestOfGrid ==
    gpc = "done" =>
        /\ grid_best_val_acc \in ReturnedAccuracies
        /\ \A a \in ReturnedAccuracies : ~Gt(a, grid_best_val_acc)
        /\ grid_best_model # <<"None">>
        /\ \E k \in 1..Len(grid_returned) :
              grid_returned[k] = <<grid_best_model, grid_best_val_acc>>

----------------------------------------------------------------------------
(* merge_list_of_dicts of x_ray_segmentation_ERDA.ipynb.  A dictionary is    *)
(* the sequence of its items <<key, value>> in insertion order, with         *)
(* distinct keys; a number is the pair <<numerator, denominator>>.           *)

\* the argument list has at most MaxDicts dictionaries
MaxDicts == 3

LossValues == {<<5, 1>>, <<3, 1>>, <<-2, 1>>}
F1Values == {<<1, 2>>}

\* the dictionaries of the argument list: each of the keys absent or present
Dicts ==
    {<<>>}
    \cup {<<<<"loss", v>>>> : v \in LossValues}
    \cup {<<<<"F1", h>>>> : h \in F1Values}
    \cup {<<<<"loss", v>>, <<"F1", h>>>> : v \in LossValues, h \in F1Values}
    \cup {<<<<"F1", h>>, <<"loss", v>>>> : v \in LossValues, h \in F1Values}

ListsOfDicts == UNION {[1..n -> Dicts] : n \in 0..MaxDicts}

\* dict.keys()
Keys(d) == {d[k][1] : k \in 1..Len(d)}

\* d[key]
Get(d, key) == d[CHOOSE k \in 1..Len(d) : d[k][1] = key][2]

\* the statement with the value put in front of the list
MergedAppend_Prepend(m, key, value) ==
    IF key \in Keys(m)
    THEN [k \in 1..Len(m) |-> IF m[k][1] = key THEN <<key, <<value>> \o m[k][2]>> ELSE m[k]]
    ELSE Append(m, <<key, <<value>>>>)

\* merged[value].append(key) on a defaultdict(list): the loop names the key
\* `value` and the value `key`
MergedAppend(m, key, value) ==
    IF key \in Keys(m)
    THEN [k \in 1..Len(m) |-> IF m[k][1] = key THEN <<key, Append(m[k][2], value)>> ELSE m[k]]
    ELSE Append(m, <<key, <<value>>>>)

\* for value, key in dict_.items()
RECURSIVE MergeItems(_, _)
MergeItems(m, items) ==
    IF items = <<>> THEN m
    ELSE MergeItems(MergedAppend(m, items[1][1], items[1][2]), Tail(items))

\* for dict_ in list_of_dicts
RECURSIVE MergeDicts(_, _)
MergeDicts(m, l) ==
    IF l = <<>> THEN m ELSE MergeDicts(MergeItems(m, l[1]), Tail(l))

merge_list_of_dicts(l) == MergeDicts(<<>>, l)

MergeInit ==
    /\ list_of_dicts \in ListsOfDicts
    /\ merged = <<>>
    /\ mpc = "called"

CallMergeListOfDicts ==
    /\ mpc = "called"
    /\ merged' = merge_list_of_dicts(list_of_dicts)
    /\ mpc' = "returned"
    /\ UNCHANGED <<list_of_dicts, predVars, dataVars, learnVars, gridVars, ckptVars, rnnVars>>

MergeNext == CallMergeListOfDicts

MergeSpecInit ==
    PredIdle /\ DataIdle /\ LearnIdle /\ GridIdle /\ CkptIdle /\ RnnIdle /\ MergeInit

MergeSpec == MergeSpecInit /\ [][MergeNext]_vars

----------------------------------------------------------------------------
(* training_loop of x_ray_segmentation_ERDA.ipynb with save_model.  A state *)
(* dict is <<run, k>>: the state after k epochs of training in all, of this  *)
(* run of the notebook or of a previous one.  The checkpoint file            *)
(* epoch_k_<save_path> with content c is the pair <<k, c>> of `files`.       *)

\* n_epochs is at most MaxCkptEpochs
MaxCkptEpochs == 2

\* the mean losses of an epoch
EpochLosses == {<<5, 1>>, <<3, 1>>}

\* range(init_epoch, n_epochs) after `if init_epoch == None: init_epoch = 0`
FirstEpoch == IF init_epoch[1] = "None" THEN 0 ELSE init_epoch[2]

\* os.path.exists(epoch_k_<save_path>)
Exists(fs, k) == \E f \in fs : f[1] = k

\* the content of epoch_k_<save_path>
Content(fs, k) == (CHOOSE f \in fs : f[1] = k)[2]

\* save_model that stores the model only
save_model_NoOptimizer(fs, k, model, optimizer) ==
    {f \in fs : f[1] # k} \cup {<<k, <<model, <<"absent", 0>>>>>>}

\* save_model(model, path, optimizer): torch.save replaces the file
save_model(fs, k, model, optimizer) ==
    {f \in fs : f[1] # k} \cup {<<k, <<model, optimizer>>>>}

\* os.remove(epoch_k_<save_path>)
Remove(fs, k) == {f \in fs : f[1] # k}

\* the files before the call: none, the one checkpoint a previous run of the
\* notebook left, and the checkpoint load_model has read when init_epoch is k >= 1
FilesBefore(init) ==
    LET loaded == IF init[1] # "None" /\ init[2] >= 1
                  THEN {<<init[2], <<<<"run", init[2]>>, <<"run", init[2]>>>>>>} ELSE {}
    IN  {loaded}
        \cup {loaded \cup {<<k, <<<<"previous", k>>, <<"previous", k>>>>>>} :
                k \in (0..MaxCkptEpochs) \ {f[1] : f \in loaded}}

CkptInit ==
    /\ cpc = "epoch_for"
    /\ n_epochs \in 0..MaxCkptEpochs
    /\ init_epoch \in {<<"None", 0>>} \cup {<<"int", k>> : k \in 0..n_epochs}
    /\ save_path \in {<<"None">>, <<"model.ckpt">>}
    /\ has_f1 \in BOOLEAN
    /\ epoch_i = FirstEpoch
    /\ model_state = <<"run", FirstEpoch>>
    /\ optimizer_state = <<"run", FirstEpoch>>
    /\ files \in FilesBefore(init_epoch)
    /\ train_metrics = <<>> /\ val_metrics = <<>>
    /\ train_history = <<>> /\ val_history = <<>>
    /\ loop_returned = <<>>

\* what every step of training_loop leaves alone
CkptFrame == UNCHANGED <<n_epochs, init_epoch, save_path, has_f1, predVars, dataVars,
                         learnVars, gridVars, mergeVars, rnnVars>>

\* for i in range(init_epoch, n_epochs): the next epoch starts
CkptForNext ==
    /\ cpc = "epoch_for"
    /\ epoch_i < n_epochs
    /\ cpc' = "run_one_epoch"
    /\ UNCHANGED <<epoch_i, model_state, optimizer_state, files, train_metrics,
                   val_metrics, train_history, val_history, loop_returned>>
    /\ CkptFrame

\* train_metrics, val_metrics = run_one_epoch(...): the model and the optimizer
\* are updated in place; evaluate_model computes every metric of metrics_with_loss
RunOneEpoch ==
    /\ cpc = "run_one_epoch"
    /\ model_state' = <<"run", model_state[2] + 1>>
    /\ optimizer_state' = <<"run", optimizer_state[2] + 1>>
    /\ \E tl \in EpochLosses, vl \in EpochLosses :
          /\ train_metrics' = <<<<"loss", tl>>>>
          /\ val_metrics' = IF has_f1 THEN <<<<"loss", vl>>, <<"f1", <<1, 2>>>>>>
                            ELSE <<<<"loss", vl>>>>
    /\ cpc' = "append"
    /\ UNCHANGED <<epoch_i, files, train_history, val_history, loop_returned>>
    /\ CkptFrame

\* train_history.append(train_metrics), the first element of the tuple expression
AppendTrainHistory ==
    /\ cpc = "append"
    /\ train_history' = Append(train_history, train_metrics)
    /\ cpc' = "append_val"
    /\ UNCHANGED <<epoch_i, model_state, optimizer_state, files, train_metrics,
                   val_metrics, val_history, loop_returned>>
    /\ CkptFrame

\* val_history.append(val_metrics), the second element
AppendValHistory ==
    /\ cpc = "append_val"
    /\ val_history' = Append(val_history, val_metrics)
    /\ cpc' = "wandb_log"
    /\ UNCHANGED <<epoch_i, model_state, optimizer_state, files, train_metrics,
                   val_metrics, train_history, loop_returned>>
    /\ CkptFrame

\* wandb.log({..., "f1": val_metrics["f1"]}): KeyError without a metric "f1",
\* which the except clause does not catch
WandbLog ==
    /\ cpc = "wandb_log"
    /\ cpc' = IF "f1" \in Keys(val_metrics) THEN "save" ELSE "KeyError"
    /\ UNCHANGED <<epoch_i, model_state, optimizer_state, files, train_metrics,
                   val_metrics, train_history, val_history, loop_returned>>
    /\ CkptFrame

\* if save_path: save_model(model, f"epoch_{i+1}_{save_path}", optimizer)
SaveCheckpoint ==
    /\ cpc = "save"
    /\ save_path # <<"None">>
    /\ files' = save_model(files, epoch_i + 1, model_state, optimizer_state)
    /\ cpc' = "remove"
    /\ UNCHANGED <<epoch_i, model_state, optimizer_state, train_metrics, val_metrics,
                   train_history, val_history, loop_returned>>
    /\ CkptFrame

\* an old path that names the checkpoint just saved
old_path_epoch_Saved(k) == k + 1

\* old_path_epoch = f"epoch_{i}_{save_path}": the number in the file name
old_path_epoch(k) == k

\* if os.path.exists(old_path_epoch): os.remove(old_path_epoch); the epoch ends
RemoveOldCheckpoint ==
    /\ cpc = "remove"
    /\ files' = IF Exists(files, old_path_epoch(epoch_i))
                THEN Remove(files, old_path_epoch(epoch_i)) ELSE files
    /\ epoch_i' = epoch_i + 1
    /\ cpc' = "epoch_for"
    /\ UNCHANGED <<model_state, optimizer_state, train_metrics, val_metrics,
                   train_history, val_history, loop_returned>>
    /\ CkptFrame

\* if save_path: (not set) the epoch ends without a checkpoint
SkipCheckpoint ==
    /\ cpc = "save"
    /\ save_path = <<"None">>
    /\ epoch_i' = epoch_i + 1
    /\ cpc' = "epoch_for"
    /\ UNCHANGED <<model_state, optimizer_state, files, train_metrics, val_metrics,
                   train_history, val_history, loop_returned>>
    /\ CkptFrame

\* except KeyboardInterrupt: the interrupt arrives between two statements of the
\* loop
KeyboardInterrupt ==
    /\ cpc \in {"epoch_for", "run_one_epoch", "append", "append_val", "wandb_log", "save",
               "remove"}
    /\ epoch_i < n_epochs
    /\ cpc' = "merge"
    /\ UNCHANGED <<epoch_i, model_state, optimizer_state, files, train_metrics,
                   val_metrics, train_history, val_history, loop_returned>>
    /\ CkptFrame

\* for i in range(init_epoch, n_epochs): the loop is exhausted
CkptForExit ==
    /\ cpc = "epoch_for"
    /\ epoch_i >= n_epochs
    /\ cpc' = "merge"
    /\ UNCHANGED <<epoch_i, model_state, optimizer_state, files, train_metrics,
                   val_metrics, train_history, val_history, loop_returned>>
    /\ CkptFrame

\* return merge_list_of_dicts(train_history), merge_list_of_dicts(val_history)
TrainingLoopReturn ==
    /\ cpc = "merge"
    /\ loop_returned' = <<merge_list_of_dicts(train_history),
                          merge_list_of_dicts(val_history)>>
    /\ cpc' = "returned"
    /\ UNCHANGED <<epoch_i, model_state, optimizer_state, files, train_metrics,
                   val_metrics, train_history, val_history>>
    /\ CkptFrame

\* the continue-training cell and the training cell run again after a call has
\* returned: init_epoch = k for a checkpoint that exists, load_model restores
\* the model and the optimizer from it, and training_loop is called with the
\* same n_epochs and save_path
ResumeTraining ==
    /\ cpc = "returned"
    /\ save_path # <<"None">>
    /\ \E k \in 1..n_epochs :
          /\ Exists(files, k)
          /\ init_epoch' = <<"int", k>>
          /\ model_state' = Content(files, k)[1]
          /\ optimizer_state' = Content(files, k)[2]
          /\ epoch_i' = k
    /\ train_metrics' = <<>> /\ val_metrics' = <<>>
    /\ train_history' = <<>> /\ val_history' = <<>>
    /\ loop_returned' = <<>>
    /\ cpc' = "epoch_for"
    /\ UNCHANGED <<n_epochs, save_path, has_f1, files, predVars, dataVars, learnVars,
                   gridVars, mergeVars, rnnVars>>

CkptNext ==
    \/ CkptForNext
    \/ RunOneEpoch
    \/ AppendTrainHistory
    \/ AppendValHistory
    \/ WandbLog
    \/ SaveCheckpoint
    \/ RemoveOldCheckpoint
    \/ SkipCheckpoint
    \/ KeyboardInterrupt
    \/ CkptForExit
    \/ TrainingLoopReturn
    \/ ResumeTraining

CkptSpecInit ==
    PredIdle /\ DataIdle /\ LearnIdle /\ GridIdle /\ MergeIdle /\ RnnIdle /\ CkptInit

CkptSpec == CkptSpecInit /\ [][CkptNext]_vars

----------------------------------------------------------------------------
(* C17 *)

\* C17: with save_path set, once epoch k >= 1 (counted from 1) of a call of
\* training_loop has completed, and until the next epoch completes, the file
\* epoch_k_<save_path> exists and holds the state of the model and of the
\* optimizer as of the end of epoch k, and no file epoch_(k-1)_<save_path>
\* exists; at the moment the epoch completes that state is the current one.
C17_SaveAndReplace ==
    (cpc # "idle" /\ save_path # <<"None">> /\ epoch_i > FirstEpoch) =>
        /\ Exists(files, epoch_i)
        /\ Content(files, epoch_i) = <<<<"run", epoch_i>>, <<"run", epoch_i>>>>
        /\ cpc = "epoch_for" =>
              Content(files, epoch_i) = <<model_state, optimizer_state>>
        /\ ~Exists(files, epoch_i - 1)

\* two epochs of a run from scratch have completed: the checkpoint of the second
\* is the only file
C17_Witness ==
    /\ save_path = <<"model.ckpt">> /\ init_epoch = <<"None", 0>>
    /\ cpc = "epoch_for" /\ epoch_i = 2 /\ model_state = <<"run", 2>>
    /\ files = {<<2, <<<<"run", 2>>, <<"run", 2>>>>>>}
    /\ Len(train_history) = 2

----------------------------------------------------------------------------
(* C20 *)

\* the docstring's example: [{"loss": 5}, {"loss": 3}, {"loss": -2, "F1": 0.5}]
DocstringExample ==
    << <<<<"loss", <<5, 1>>>>>>,
       <<<<"loss", <<3, 1>>>>>>,
       <<<<"loss", <<-2, 1>>>>, <<"F1", <<1, 2>>>>>> >>

\* the values a key has in the dictionaries of l that have it, in the order of l
ValuesInOrder(l, key) ==
    LET having == SelectSeq(l, LAMBDA d : key \in Keys(d))
    IN  [j \in 1..Len(having) |-> Get(having[j], key)]

\* a dictionary as the set of its items
Items(d) == {d[k] : k \in 1..Len(d)}

\* C20: merge_list_of_dicts returns a dictionary whose keys are the keys that
\* occur in some dictionary of the list, each once, and that maps every key to
\* the values the key has in the dictionaries that have it, in list order; the
\* docstring's example gives {loss: [5, 3, -2], F1: [0.5]} and the empty list the
\* empty dictionary.
C20_DictOfLists ==
    mpc = "returned" =>
        /\ Keys(merged) = UNION {Keys(list_of_dicts[k]) : k \in 1..Len(list_of_dicts)}
        /\ Cardinality(Keys(merged)) = Len(merged)
        /\ \A key \in Keys(merged) : Get(merged, key) = ValuesInOrder(list_of_dicts, key)
        /\ list_of_dicts = DocstringExample =>
              Items(merged) = {<<"loss", << <<5, 1>>, <<3, 1>>, <<-2, 1>> >> >>,
                               <<"F1", << <<1, 2>> >> >>}
        /\ list_of_dicts = <<>> => merged = <<>>

\* the docstring's example has been merged
C20_Witness ==
    /\ mpc = "returned" /\ list_of_dicts = DocstringExample
    /\ Get(merged, "loss") = << <<5, 1>>, <<3, 1>>, <<-2, 1>> >>

----------------------------------------------------------------------------
(* RNNCell and RNN of tove1.ipynb.  A tensor is known by its last dimension, *)
(* its width, and by where it comes from; a hidden state is the pair of its  *)
(* width and the set of batches (calls of forward) it depends on, the empty  *)
(* set for torch.zeros.                                                      *)

\* the RNN has at most MaxLayers layers
MaxLayers == 2
\* a batch has at most MaxTime time steps
MaxTime == 2
\* forward is called on at most MaxCalls batches
MaxCalls == 2
\* input_size = 3: the one-hot encoding of 'a', 'b', 'c'
input_size == 3
\* output_size = 2
output_size == 2

\* hidden_size: the sizes of the hyper-parameter search, and the input size
HiddenSizes == {3, 16, 32, 64}

\* self.i2h = nn.Linear(input_size + hidden_size, hidden_size) of every cell:
\* RNN.__init__ builds every layer as RNNCell(input_size, hidden_size)
i2h_in_features == input_size + rnn_hidden_size

\* init_hidden that hands back the list of the previous call
init_hidden_KeepsHidden ==
    IF hidden = <<>> THEN [l \in 1..n_layers |-> <<rnn_hidden_size, {}>>] ELSE hidden

\* init_hidden(batch_size): one torch.zeros(batch_size, self.hidden_size) per layer
init_hidden == [l \in 1..n_layers |-> <<rnn_hidden_size, {}>>]

RnnInit ==
    /\ rpc = "caller"
    /\ n_layers \in 1..MaxLayers
    /\ rnn_hidden_size \in HiddenSizes
    /\ seq_len \in 1..MaxTime
    /\ call_no = 0 /\ hidden_arg = "None" /\ hidden = <<>> /\ input = <<>>
    /\ input_width = 0 /\ layer_idx = 0 /\ input_idx = 0 /\ layer_outputs = <<>>
    /\ consumed = <<>> /\ logits = <<>>

\* what every step of the forward passes leaves alone
RnnFrame == UNCHANGED <<n_layers, rnn_hidden_size, seq_len, predVars, dataVars,
                        learnVars, gridVars, mergeVars, ckptVars>>

\* the first statements of RNN.forward on the next batch, after `hidden` is bound
EnterForward ==
    /\ call_no' = call_no + 1
    /\ input' = [t \in 1..seq_len |-> <<"input", call_no + 1, t - 1>>]
    /\ input_width' = input_size
    /\ layer_idx' = 0 /\ input_idx' = 0 /\ layer_outputs' = <<>> /\ consumed' = <<>>
    /\ rpc' = "forward"
    /\ UNCHANGED logits
    /\ RnnFrame

\* train_model, its validation loop and the test cell:
\* hidden = model.init_hidden(sequences.size(0)); outputs = model(sequences, hidden)
CallWithInitHidden ==
    /\ rpc = "caller"
    /\ call_no < MaxCalls
    /\ hidden_arg' = "init_hidden"
    /\ hidden' = init_hidden
    /\ EnterForward

\* model(input): if hidden is None: hidden = self.init_hidden(input.size(0))
CallWithoutHidden ==
    /\ rpc = "caller"
    /\ call_no < MaxCalls
    /\ hidden_arg' = "None"
    /\ hidden' = init_hidden
    /\ EnterForward

\* one iteration of the inner loop: x = input[:, input_idx, :] goes through the
\* cell of the layer; torch.cat((input, hidden), 1) must have the in_features of
\* i2h, or nn.Linear raises RuntimeError
CellStep ==
    /\ rpc = "forward"
    /\ layer_idx < n_layers
    /\ input_idx < seq_len
    /\ LET x == input[input_idx + 1]
           h == hidden[layer_idx + 1]
           combined == input_width + h[1]
       IN  /\ consumed' = Append(consumed, <<layer_idx, x>>)
           /\ IF combined # i2h_in_features
              THEN /\ rpc' = "RuntimeError"
                   /\ UNCHANGED <<hidden, layer_outputs, input_idx>>
              ELSE /\ hidden' = [hidden EXCEPT ![layer_idx + 1] =
                                    <<rnn_hidden_size, h[2] \cup {call_no}>>]
                   /\ layer_outputs' =
                         Append(layer_outputs, <<"output", call_no, layer_idx, input_idx>>)
                   /\ input_idx' = input_idx + 1
                   /\ UNCHANGED rpc
    /\ UNCHANGED <<call_no, hidden_arg, input, input_width, layer_idx, logits>>
    /\ RnnFrame

\* outputs.append(torch.stack(layer_outputs, dim=1)); input = outputs[-1]: the
\* outputs of h2o have width hidden_size
LayerDone ==
    /\ rpc = "forward"
    /\ layer_idx < n_layers
    /\ input_idx = seq_len
    /\ input' = layer_outputs
    /\ input_width' = rnn_hidden_size
    /\ layer_idx' = layer_idx + 1
    /\ input_idx' = 0
    /\ layer_outputs' = <<>>
    /\ UNCHANGED <<rpc, call_no, hidden_arg, hidden, consumed, logits>>
    /\ RnnFrame

\* output = self.fc(outputs[-1][:, -1, :]); return output
ProjectAndReturn ==
    /\ rpc = "forward"
    /\ layer_idx = n_layers
    /\ logits' = <<input[seq_len], output_size>>
    /\ rpc' = "caller"
    /\ UNCHANGED <<call_no, hidden_arg, hidden, input, input_width, layer_idx, input_idx,
                   layer_outputs, consumed>>
    /\ RnnFrame

RnnNext ==
    \/ CallWithInitHidden
    \/ CallWithoutHidden
    \/ CellStep
    \/ LayerDone
    \/ ProjectAndReturn

RnnSpecInit ==
    PredIdle /\ DataIdle /\ LearnIdle /\ GridIdle /\ MergeIdle /\ CkptIdle /\ RnnInit

RnnSpec == RnnSpecInit /\ [][RnnNext]_vars

----------------------------------------------------------------------------
(* C18, C19 *)

\* C18: every call of RNN.forward, with hidden=None or with the list the
\* training and evaluation loops pass, starts with the hidden state of every
\* layer at zero, and during the call the hidden state of a layer depends on the
\* current batch only.
C18_HiddenStartsAtZero ==
    rpc \in {"forward", "RuntimeError"} =>
        /\ Len(hidden) = n_layers
        /\ \A l \in 1..n_layers :
              /\ hidden[l][2] \subseteq {call_no}
              /\ (layer_idx < l - 1 \/ (layer_idx = l - 1 /\ input_idx = 0)) =>
                    hidden[l] = <<rnn_hidden_size, {}>>

\* a second call starts at zero after the first call has left its hidden states
\* in the list it was given
C18_Witness ==
    /\ rpc = "forward" /\ call_no = 2 /\ layer_idx = 0 /\ input_idx = 0
    /\ logits # <<>>
    /\ \A l \in 1..n_layers : hidden[l] = <<rnn_hidden_size, {}>>

\* C19: RNN.forward never stops with a dimension mismatch, whatever n_layers and
\* hidden_size; layer 0 reads the time steps of the 3-wide input and every
\* layer k >= 1 the outputs of layer k-1, in time order; and the value returned
\* is the projection of the last layer's last output to output_size logits.
C19_StackedLayersRun ==
    /\ rpc # "RuntimeError"
    /\ rpc = "forward" =>
          \A j \in 1..Len(consumed) :
              LET k == (j - 1) \div seq_len
                  t == (j - 1) % seq_len
              IN  consumed[j] =
                      <<k, IF k = 0 THEN <<"input", call_no, t>>
                           ELSE <<"output", call_no, k - 1, t>>>>
    /\ (rpc = "caller" /\ call_no >= 1) =>
          /\ Len(consumed) = n_layers * seq_len
          /\ logits = <<<<"output", call_no, n_layers - 1, seq_len - 1>>, output_size>>

----------------------------------------------------------------------------
(* The range variants under fair sampling: np.random.choice draws every      *)
(* string of the length with positive probability, so a loop that keeps      *)
(* drawing eventually draws a string its condition rejects, when there is    *)
(* one.                                                                      *)

\* an iteration of the while loop that draws a string the predicate rejects
RedrawRejected ==
    RedrawInvalidSequence /\ ~is_language(variant, candidate')

RejectionInit == PredIdle /\ MlIdle /\ RangeInit

RejectionSpec ==
    /\ RejectionInit
    /\ [][RangeNext]_vars
    /\ WF_vars(RedrawRejected)
    /\ WF_vars(ReturnInvalidSequence)

----------------------------------------------------------------------------
(* C21 *)

\* C21: under fair sampling a call generate_invalid_sequence(length) with
\* length >= 1 eventually returns, and a call with length 0 never returns: its
\* loop stays in the loop at every step.
C21_RejectionTerminates ==
    /\ [](pc = "generate_invalid_sequence" /\ length >= 1
            => <>(pc # "generate_invalid_sequence"))
    /\ [][(pc = "generate_invalid_sequence" /\ length = 0)
            => pc' = "generate_invalid_sequence"]_vars

\* the count-based loop has returned a string of length 3, a length at which
\* the predicate accepts six strings
C21_Witness ==
    /\ variant = "count" /\ pc = "generate_samples" /\ branch = "invalid"
    /\ length = 3 /\ gen_sequence = <<"a", "a", "b">>
    /\ is_language("count", <<"c", "a", "b">>)

----------------------------------------------------------------------------
(* C22 *)

\* a step that starts an evaluation pass
EvaluationStarts == lpc # "eval_for" /\ lpc' = "eval_for"

\* a step taken inside an evaluation pass, its last step included
InEvaluation == lpc \in {"eval_for", "class_for"}

----------------------------------------------------------------------------
(* C23 *)

\* the calls of run_one_epoch that have returned in this call of training_loop
EpochsRun == model_state[2] - FirstEpoch

\* C23: when training_loop has returned, after an interrupt or not, the two
\* histories have the same number of entries, one for each epoch whose
\* run_one_epoch call had returned.
C23_InterruptKeepsHistories ==
    cpc = "returned" =>
        /\ Len(train_history) = Len(val_history)
        /\ Len(train_history) = EpochsRun

----------------------------------------------------------------------------
(* C24 *)

\* every checkpoint file was written by this training, none is left from an
\* unrelated earlier run of the notebook
OnlyOwnCheckpoints == \A f \in files : f[2][1][1] = "run"

\* a call with init_epoch = k >= 1 has run to the end of its epoch loop and
\* returned
ResumedRunCompleted ==
    /\ cpc = "returned" /\ save_path # <<"None">>
    /\ init_epoch[1] = "int" /\ init_epoch[2] >= 1
    /\ epoch_i = n_epochs

\* C24: a call resumed with init_epoch = k from the checkpoint epoch_k that runs
\* to its end has run n_epochs - k epochs, the last one numbered n_epochs, and
\* ends with epoch_<n_epochs>_<save_path> as the only checkpoint file.
C24_ResumeConsistent ==
    (ResumedRunCompleted /\ OnlyOwnCheckpoints) =>
        /\ EpochsRun = n_epochs - init_epoch[2]
        /\ model_state = <<"run", n_epochs>>
        /\ Exists(files, n_epochs)
        /\ \A f \in files : f[1] = n_epochs

----------------------------------------------------------------------------
(* C28 *)

\* some file holds a model and an optimizer state written by this training
HasCompleteCheckpoint(fs) ==
    \E f \in fs : f[2][1][1] = "run" /\ f[2][2][1] = "run"

\* the numbers of the files a step deletes
RemovedEpochs == {f[1] : f \in files} \ {f[1] : f \in files'}

\* C28: the save of an epoch leaves a complete checkpoint, no later step of the
\* run, interrupt and return included, leaves the directory without one, and a
\* step that removes a checkpoint leaves a newer one in place.
C28_SaveBeforeDelete ==
    /\ [][(cpc = "save" /\ cpc' = "remove") => HasCompleteCheckpoint(files')]_vars
    /\ [][HasCompleteCheckpoint(files) => HasCompleteCheckpoint(files')]_vars
    /\ [][\A k \in RemovedEpochs : \E g \in files' : g[1] > k]_vars

\* a run from scratch was stopped by an interrupt between the save of epoch 2
\* and the removal of epoch 1: both checkpoints exist
C28_Witness ==
    /\ save_path = <<"model.ckpt">> /\ init_epoch = <<"None", 0>>
    /\ cpc = "merge" /\ epoch_i = 1
    /\ files = {<<1, <<<<"run", 1>>, <<"run", 1>>>>>>, <<2, <<<<"run", 2>>, <<"run", 2>>>>>>}

----------------------------------------------------------------------------
(* C25 *)

\* the parameters after k epochs, as the number of optimizer steps that made them
ParametersAfterEpoch(k) == k * n_batches

\* C25: the model train_model returns as best_model has the parameters it had
\* at the end of the epoch in which best_val_acc was measured.
C25_BestModelParameters ==
    (notebook = "tove1" /\ lpc = "returned" /\ best_model = "model") =>
        n_steps = ParametersAfterEpoch(best_epoch)

----------------------------------------------------------------------------
(* C26 *)

\* C26: when train_model has run at least one epoch on a non-empty validation
\* set and returned, the best_model it returns is a model and not None, so that
\* best_model.eval() can run.
C26_ReturnsAModel ==
    (notebook = "tove1" /\ lpc = "returned" /\ num_epochs >= 1 /\ Len(labels) >= 1) =>
        best_model # "None"

----------------------------------------------------------------------------
(* C27 *)

\* the greatest of the accuracies seen so far and the initial best_val_acc = 0
GreatestSoFar ==
    CHOOSE a \in ReturnedAccuracies \cup {<<0, 1>>} :
        \A b \in ReturnedAccuracies \cup {<<0, 1>>} : ~Gt(b, a)

====
